---------------------------- MODULE Spec2Model ----------------------------
(***************************************************************************)
(* A model of the chat server of socket_chat (src/server.py): the registry *)
(* `clients` (socket -> username) guarded by `clients_lock`, one handler   *)
(* thread per accepted connection running handle_client, the broadcast     *)
(* loop, and stop().                                                        *)
(*                                                                         *)
(* A session is identified by its socket object; sockets are numbered in   *)
(* the order accept() returns them, and the handler thread of socket s is  *)
(* thread s.  Strings are sequences of one-character strings.  The         *)
(* 'timestamp' field of the server's messages (time.time()) is left out.   *)
(***************************************************************************)
EXTENDS Integers, Sequences, FiniteSets, TLC

\* ------------------------------------------------------------- bounds
\* Connections accepted over the server's life.
MaxSessions == 2
\* Frames received in the message loops of all handlers together.
MaxFrames == 2
\* len(username) <= 20
MaxNameLen == 20
\* Complete frames that follow the first one in the bytes one receive has read.
MaxCoalesced == 1

Sessions == 1..MaxSessions

\* ------------------------------------------------------------- strings
Whitespace == {" ", "\t"}

RECURSIVE LStrip(_)
LStrip(s) == IF s # <<>> /\ Head(s) \in Whitespace THEN LStrip(Tail(s)) ELSE s

RECURSIVE RStrip(_)
RStrip(s) ==
  IF s # <<>> /\ s[Len(s)] \in Whitespace THEN RStrip(SubSeq(s, 1, Len(s) - 1)) ELSE s

\* str.strip()
Strip(s) == RStrip(LStrip(s))

\* A name longer than the limit.
LongName == [i \in 1..(MaxNameLen + 1) |-> "x"]

\* Python's None for the handler's `username`; like '' it is falsy, and
\* get_username never returns ''.
None == <<>>

\* ------------------------------------------------------------- what a peer sends
\* A field of a received JSON object: a string, missing, or not a string.
Str(s) == [k |-> "str", v |-> s]
Absent == [k |-> "absent", v |-> <<>>]
NonStr == [k |-> "nonstr", v |-> <<>>]

\* A decoded JSON value: a non-empty object (with its 'type', 'username' and
\* 'message'), a falsy value ({}, null, 0, "", [], false), or a truthy value
\* that is no object ([1], 5, "x").
Dict(t, u, m) == [shape |-> "dict", type |-> t, username |-> u, message |-> m]
Falsy == [shape |-> "falsy", type |-> "absent", username |-> Absent, message |-> Absent]
NonDict == [shape |-> "nondict", type |-> "absent", username |-> Absent, message |-> Absent]
NoValue == [shape |-> "none", type |-> "absent", username |-> Absent, message |-> Absent]

\* What one call of receive_message met on the transport.
Result(k) == [kind |-> k, val |-> NoValue]
Frame(v) == [kind |-> "json", val |-> v]

NameInputs == {<<>>, <<" ">>, <<"a">>, <<" ", "a">>, <<"b">>, <<"a", "!">>, LongName}

ContentInputs == {<<>>, <<" ">>, <<"h">>, <<" ", "h", " ">>}

JoinFrames ==
  {Dict("join", Str(n), Absent) : n \in NameInputs}
    \cup {Dict("join", Absent, Absent), Dict("join", NonStr, Absent)}

ChatFrames ==
  {Dict("chat", Absent, Str(c)) : c \in ContentInputs}
    \cup {Dict("chat", Absent, Absent), Dict("chat", Absent, NonStr)}

OtherFrames ==
  {Dict("ping", Absent, Absent), Dict("other", Absent, Absent),
   Dict("absent", Absent, Absent), Falsy, NonDict}

\* The frames a peer sends first, and those it sends after its join.
FirstFrames == JoinFrames \cup {Dict("chat", Absent, Str(<<"h">>)), Falsy, NonDict}

LaterFrames == ChatFrames \cup OtherFrames \cup {Dict("join", Str(<<"a">>), Absent)}

\* ------------------------------------------------------------- what the server sends
Msg(t, u, m, us) == [type |-> t, username |-> u, message |-> m, users |-> us]
NoMsg == Msg("none", <<>>, <<>>, <<>>)

UserJoined(u) == Msg("user_joined", u, u \o <<" joined the chat">>, <<>>)
UserLeft(u) == Msg("user_left", u, u \o <<" left the chat">>, <<>>)
Chat(u, content) == Msg("chat", u, content, <<>>)
Welcome(u, users) == Msg("welcome", <<>>, <<"Welcome to the chat, ">> \o u \o <<"!">>, users)
Pong == Msg("pong", <<>>, <<>>, <<>>)
ErrorMsg(text) == Msg("error", <<>>, <<text>>, <<>>)

\* What a peer that was told the names v makes of message m: the welcome gives
\* the list, user_joined adds a name, user_left takes one away.
Applied(v, m) ==
  CASE m.type = "welcome" -> {m.users[i] : i \in DOMAIN m.users}
    [] m.type = "user_joined" -> v \cup {m.username}
    [] m.type = "user_left" -> v \ {m.username}
    [] OTHER -> v

\* ------------------------------------------------------------- state
VARIABLES
  running,    \* self.running
  mainPc,     \* where the main thread is: start(), the accept loop, stop()
  clients,    \* self.clients, in insertion order: <<[sock, name], ...>>
  lock,       \* the thread inside `with self.clients_lock` (0: nobody)
  pc,         \* where each handler thread is
  username,   \* the handler's local `username`: get_username's until it
              \* returns, handle_client's from then on
  content,    \* process_message's local `content`, until process_message returns
  closed,     \* the server closed the socket
  peerGone,   \* the server has met the peer's end of an open socket closed or reset
  bc,         \* the broadcast the lock holder is running
  io,         \* the receive and the send of the last step, if it made any
  frames,     \* frames received in the message loops so far
  joinSteps,  \* what the handler has done for its join so far, in order
  view        \* the member names each connected peer has been told of: its
              \* welcome's users, then the user_joined and user_left written to it

vars ==
  <<running, mainPc, clients, lock, pc, username, content, closed, peerGone, bc, io, frames,
    joinSteps, view>>

\* `cur` is the socket whose socket.send the broadcasting thread is inside (0: none).
NoBc == [msg |-> NoMsg, exclude |-> 0, todo |-> <<>>, tried |-> <<>>, cur |-> 0]

\* A step's transport calls: `at` is where the thread stood, `rx` what its
\* receive_message met, `msg` what it gave to send_message for socket `to`,
\* `ok` whether socket.send wrote it.
\* `lost` counts the complete frames the receive read and did not keep.
NoIo ==
  [sock |-> 0, at |-> "none", rx |-> Result("none"), to |-> 0, msg |-> NoMsg, ok |-> FALSE,
   lost |-> 0]
Received(s, at, r) == [NoIo EXCEPT !.sock = s, !.at = at, !.rx = r]
Sending(i, to, m, ok) == [i EXCEPT !.to = to, !.msg = m, !.ok = ok]

\* ------------------------------------------------------------- the registry
Keys(c) == [i \in 1..Len(c) |-> c[i].sock]
\* A values() view that misses the dict's newest entry.
ValuesButNewest(c) == [i \in 1..(Len(c) - 1) |-> c[i].name]
Values(c) == [i \in 1..Len(c) |-> c[i].name]
Range(f) == {f[i] : i \in DOMAIN f}
InRegistry(s) == s \in Range(Keys(clients))

\* self.clients[client_socket] = username
Put(c, s, n) ==
  IF s \in Range(Keys(c))
    THEN [i \in 1..Len(c) |-> IF c[i].sock = s THEN [sock |-> s, name |-> n] ELSE c[i]]
    ELSE Append(c, [sock |-> s, name |-> n])

\* A delete that empties the dict.
DelAll(c, s) == <<>>

\* A delete that leaves the dict as it is.
DelNothing(c, s) == c

\* if client_socket in self.clients: del self.clients[client_socket]
Del(c, s) == SelectSeq(c, LAMBDA e : e.sock # s)

\* if username in self.clients.values()
Taken(c, n) == n \in Range(Values(c))

\* ------------------------------------------------------------- receive_message
\* A timeout, a closed or failing transport and undecodable JSON all end in
\* `return None`; a decoded frame is returned as it is.
ReceiveMessage(r) == IF r.kind = "json" THEN r.val ELSE NoValue

\* buffer.split('\n', 1): with `remaining` complete frames after the first
\* terminator, what is kept of them for the next call (`if remaining: pass`;
\* `buffer` is a local that starts empty in every call).
Retained(remaining) == 0

\* The complete frames a receive has read and dropped.
Discarded(remaining) == remaining - Retained(remaining)

\* How many complete frames the transport may deliver behind the first one:
\* TCP coalesces what the peer wrote in several sends.
Coalesced(r) == IF r.kind = "json" THEN 0..MaxCoalesced ELSE {0}

\* `if x:` for what receive_message returned
Truthy(v) == v.shape \in {"dict", "nondict"}

\* data.get(key, '')
Get(f) == IF f.k = "absent" THEN Str(<<>>) ELSE f

\* What the transport of s can yield to one receive when no frame is decoded:
\* recv raises on a socket the server closed; the peer may have closed
\* ("closed": recv returns b'') or reset ("error") the connection; with the
\* peer there, no full frame arrives in time or the line is no JSON.
TransportResults(s) ==
  IF closed[s] THEN {Result("error")}
  ELSE IF peerGone[s] THEN {Result("closed"), Result("error")}
  ELSE {Result("timeout"), Result("badjson"), Result("closed"), Result("error")}

PeerSends(s) == ~closed[s] /\ ~peerGone[s]

\* The peer is seen gone by a receive that ends "closed" or "error".
GoneAfter(g, s, r) ==
  IF r.kind \in {"closed", "error"} /\ ~closed[s] THEN [g EXCEPT ![s] = TRUE] ELSE g

\* ------------------------------------------------------------- send_message
\* socket.send fails on a socket the server closed and to a peer that is
\* gone; the peer may also turn out to be gone at this very send.
\* send_message catches the failure and returns.
SendOutcomes(g, s) == IF closed[s] \/ g[s] THEN {FALSE} ELSE {TRUE, FALSE}

\* A send_message without its except clause: the failure reaches the caller.
SendMessagePropagates(ok) == ~ok

\* Whether send_message lets the failure of a send reach its caller.
SendMessageRaises(ok) == FALSE

\* A send that fails on a socket the server has not closed has met the peer gone.
GoneAt(g, s, ok) == IF ~ok /\ ~closed[s] THEN [g EXCEPT ![s] = TRUE] ELSE g

\* ------------------------------------------------------------- get_username
\* if username and len(username) <= 20
NameOk(n) == n # <<>> /\ Len(n) <= MaxNameLen

\* The handshake's verdict on what was received: "check" (look the name up),
\* "invalid" (send the error) or "raise" (the except clause: return None).
GetUsername(r) ==
  LET v == ReceiveMessage(r)
      n == Strip(Get(v.username).v)
  IN  IF ~Truthy(v) THEN [out |-> "invalid", name |-> None]
      ELSE IF v.shape = "nondict" THEN [out |-> "raise", name |-> None]
      ELSE IF v.type # "join" THEN [out |-> "invalid", name |-> None]
      ELSE IF Get(v.username).k = "nonstr" THEN [out |-> "raise", name |-> None]
      ELSE IF NameOk(n) THEN [out |-> "check", name |-> n]
      ELSE [out |-> "invalid", name |-> None]

\* ------------------------------------------------------------- process_message
\* The content taken without .strip().
ContentUntrimmed(v) == Get(v.message).v

\* content = message_data.get('message', '').strip()
Content(v) == Strip(Get(v.message).v)

\* A process_message without the `if content:` test.
ProcessMessageAnyContent(v) ==
  IF v.shape = "nondict" THEN "raise"
  ELSE IF v.type = "chat"
    THEN IF Get(v.message).k = "nonstr" THEN "raise" ELSE "chat"
  ELSE IF v.type = "ping" THEN "pong"
  ELSE "none"

\* "chat" (broadcast it), "pong", "none" (nothing to do) or "raise".
ProcessMessage(v) ==
  IF v.shape = "nondict" THEN "raise"
  ELSE IF v.type = "chat"
    THEN IF Get(v.message).k = "nonstr" THEN "raise"
         ELSE IF Content(v) # <<>> THEN "chat" ELSE "none"
  ELSE IF v.type = "ping" THEN "pong"
  ELSE "none"

\* ------------------------------------------------------------- broadcast_message
\* for client_socket in list(self.clients.keys()): if client_socket != exclude
BroadcastTargets(c, exclude) == SelectSeq(Keys(c), LAMBDA k : k # exclude)

\* The sockets whose send raised: those the cleanup pass disconnects.
Disconnected(tried) == {tried[i].sock : i \in {j \in DOMAIN tried : tried[j].raised}}

\* The handler of s has sent its welcome: what is written to s from now on
\* comes after the welcome.
Welcomed(s) == \E i \in DOMAIN joinSteps[s] : joinSteps[s][i] = "welcome"

\* ------------------------------------------------------------- Init
Init ==
  /\ running = FALSE
  /\ mainPc = "init"
  /\ clients = <<>>
  /\ lock = 0
  /\ pc = [s \in Sessions |-> "idle"]
  /\ username = [s \in Sessions |-> None]
  /\ content = [s \in Sessions |-> <<>>]
  /\ closed = [s \in Sessions |-> FALSE]
  /\ peerGone = [s \in Sessions |-> FALSE]
  /\ bc = NoBc
  /\ io = NoIo
  /\ frames = 0
  /\ joinSteps = [s \in Sessions |-> <<>>]
  /\ view = [s \in Sessions |-> {}]

\* The process is alive: daemon handler threads die when main() returns.
Alive == mainPc # "exit"

\* ------------------------------------------------------------- the main thread
\* start(), up to the accept loop
Start ==
  /\ mainPc = "init"
  /\ running' = TRUE
  /\ mainPc' = "accept"
  /\ io' = NoIo
  /\ UNCHANGED <<clients, lock, pc, username, content, closed, peerGone, bc, frames, joinSteps, view>>

\* accept() returns a connection and its handler thread is started
Accept(s) ==
  /\ mainPc = "accept"
  /\ pc[s] = "idle"
  /\ \A o \in Sessions : o < s => pc[o] # "idle"
  /\ pc' = [pc EXCEPT ![s] = "hs_recv"]
  /\ io' = NoIo
  /\ UNCHANGED <<running, mainPc, clients, lock, username, content, closed, peerGone, bc, frames, joinSteps, view>>

\* stop(): self.running = False.  start()'s finally calls stop(), and then
\* main()'s finally calls it again.
StopFlag ==
  /\ mainPc \in {"accept", "stop2"}
  /\ running' = FALSE
  /\ mainPc' = IF mainPc = "accept" THEN "clear1" ELSE "clear2"
  /\ io' = NoIo
  /\ UNCHANGED <<clients, lock, pc, username, content, closed, peerGone, bc, frames, joinSteps, view>>

\* stop(): under the lock, close every registered socket and clear the registry
StopClear ==
  /\ mainPc \in {"clear1", "clear2"}
  /\ lock = 0
  /\ closed' = [s \in Sessions |-> closed[s] \/ InRegistry(s)]
  /\ peerGone' = [s \in Sessions |-> peerGone[s] /\ ~InRegistry(s)]
  /\ clients' = <<>>
  /\ mainPc' = IF mainPc = "clear1" THEN "stop2" ELSE "exit"
  /\ io' = NoIo
  /\ view' = [s \in Sessions |-> IF InRegistry(s) THEN {} ELSE view[s]]
  /\ UNCHANGED <<running, lock, pc, username, content, bc, frames, joinSteps>>

\* ------------------------------------------------------------- the handshake
\* get_username: the first receive, and the 'Invalid username' error
HsReceive(s) ==
  /\ Alive
  /\ pc[s] = "hs_recv"
  /\ \E r \in TransportResults(s)
            \cup (IF PeerSends(s) THEN {Frame(v) : v \in FirstFrames} ELSE {}) :
     \E more \in Coalesced(r) :
       LET g == GetUsername(r)
           gone == GoneAfter(peerGone, s, r)
           got == [Received(s, "hs_recv", r) EXCEPT !.lost = Discarded(more)]
       IN  \/ /\ g.out = "check"
              /\ pc' = [pc EXCEPT ![s] = "hs_lock"]
              /\ username' = [username EXCEPT ![s] = g.name]
              /\ peerGone' = gone
              /\ io' = got
           \/ /\ g.out = "invalid"
              /\ \E ok \in SendOutcomes(gone, s) :
                   /\ io' = Sending(got, s, ErrorMsg("Invalid username"), ok)
                   /\ peerGone' = GoneAt(gone, s, ok)
              /\ pc' = [pc EXCEPT ![s] = "dc_lock"]
              /\ username' = username
           \/ /\ g.out = "raise"
              /\ pc' = [pc EXCEPT ![s] = "dc_lock"]
              /\ username' = username
              /\ peerGone' = gone
              /\ io' = got
  /\ UNCHANGED <<running, mainPc, clients, lock, content, closed, bc, frames, joinSteps, view>>

\* get_username: with self.clients_lock: if username in self.clients.values()
HsCheck(s) ==
  /\ Alive
  /\ pc[s] = "hs_lock"
  /\ lock = 0
  /\ IF Taken(clients, username[s])
       THEN /\ lock' = s
            /\ pc' = [pc EXCEPT ![s] = "hs_taken"]
       ELSE /\ lock' = 0
            /\ pc' = [pc EXCEPT ![s] = "ins_lock"]
  /\ io' = NoIo
  /\ UNCHANGED <<running, mainPc, clients, username, content, closed, peerGone, bc, frames, joinSteps, view>>

\* get_username: the 'Username already taken' error, sent inside the with
\* block, and return None
HsTaken(s) ==
  /\ Alive
  /\ pc[s] = "hs_taken"
  /\ lock = s
  /\ \E ok \in SendOutcomes(peerGone, s) :
       /\ io' = Sending([NoIo EXCEPT !.sock = s, !.at = "hs_taken"], s,
                        ErrorMsg("Username already taken"), ok)
       /\ peerGone' = GoneAt(peerGone, s, ok)
  /\ lock' = 0
  /\ username' = [username EXCEPT ![s] = None]
  /\ pc' = [pc EXCEPT ![s] = "dc_lock"]
  /\ UNCHANGED <<running, mainPc, clients, content, closed, bc, frames, joinSteps, view>>

\* handle_client: with self.clients_lock: self.clients[client_socket] = username
Insert(s) ==
  /\ Alive
  /\ pc[s] = "ins_lock"
  /\ lock = 0
  /\ clients' = Put(clients, s, username[s])
  /\ pc' = [pc EXCEPT ![s] = "bj_lock"]
  /\ io' = NoIo
  /\ joinSteps' = [joinSteps EXCEPT ![s] = <<"insert">>]
  /\ UNCHANGED <<running, mainPc, lock, username, content, closed, peerGone, bc, frames, view>>

\* ------------------------------------------------------------- broadcast_message
\* A broadcast_message without its with block.
BroadcastBeginUnlocked(t, msg, exclude) ==
  /\ lock' = t
  /\ bc' = [msg |-> msg, exclude |-> exclude,
            todo |-> BroadcastTargets(clients, exclude), tried |-> <<>>, cur |-> 0]
  /\ pc' = [pc EXCEPT ![t] = "bc_loop"]
  /\ io' = NoIo

\* with self.clients_lock: the list of the keys is taken
BroadcastBegin(t, msg, exclude) ==
  /\ lock = 0
  /\ lock' = t
  /\ bc' = [msg |-> msg, exclude |-> exclude,
            todo |-> BroadcastTargets(clients, exclude), tried |-> <<>>, cur |-> 0]
  /\ pc' = [pc EXCEPT ![t] = "bc_loop"]
  /\ io' = NoIo

\* one turn of the loop: send_message(client_socket, data) is called for the
\* next key and the thread enters socket.send, inside the with block
BroadcastEnter(t) ==
  /\ Alive
  /\ pc[t] = "bc_loop"
  /\ lock = t
  /\ bc.todo # <<>>
  /\ bc.cur = 0
  /\ bc' = [bc EXCEPT !.cur = Head(bc.todo)]
  /\ io' = NoIo
  /\ UNCHANGED <<running, mainPc, clients, lock, pc, username, content, closed, peerGone,
                 frames, joinSteps, view>>

\* socket.send returns or raises, and send_message returns
BroadcastSend(t) ==
  /\ Alive
  /\ pc[t] = "bc_loop"
  /\ lock = t
  /\ bc.cur # 0
  /\ LET r == bc.cur
     IN  \E ok \in SendOutcomes(peerGone, r) :
           /\ io' = Sending([NoIo EXCEPT !.sock = t, !.at = "bc_loop"], r, bc.msg, ok)
           /\ peerGone' = GoneAt(peerGone, r, ok)
           /\ bc' = [bc EXCEPT !.todo = Tail(@), !.cur = 0,
                               !.tried = Append(@, [sock |-> r, ok |-> ok,
                                                    raised |-> SendMessageRaises(ok)])]
           /\ view' = IF ok /\ Welcomed(r)
                        THEN [view EXCEPT ![r] = Applied(@, bc.msg)] ELSE view
  /\ UNCHANGED <<running, mainPc, clients, lock, pc, username, content, closed, frames, joinSteps>>

\* A handle_client that enters its loop right after the user_joined broadcast.
AfterBroadcastNoWelcome(msg) ==
  CASE msg.type = "user_joined" -> "loop"
    [] msg.type = "chat" -> "loop"
    [] OTHER -> "done"

\* Where the caller of broadcast_message goes on.
AfterBroadcast(msg) ==
  CASE msg.type = "user_joined" -> "welcome"
    [] msg.type = "chat" -> "loop"
    [] OTHER -> "done"

\* the cleanup pass and the end of the with block.  disconnect_client asks for
\* the lock its caller holds: with a socket to clean up the thread blocks.
\* A handler that returns (after its user_left) leaves no locals behind.
BroadcastEnd(t) ==
  /\ Alive
  /\ pc[t] = "bc_loop"
  /\ lock = t
  /\ bc.todo = <<>>
  /\ IF Disconnected(bc.tried) # {}
       THEN /\ pc' = [pc EXCEPT ![t] = "blocked"]
            /\ UNCHANGED <<lock, bc, username, content, joinSteps>>
       ELSE /\ pc' = [pc EXCEPT ![t] = AfterBroadcast(bc.msg)]
            /\ lock' = 0
            /\ bc' = NoBc
            /\ username' = IF AfterBroadcast(bc.msg) = "done"
                             THEN [username EXCEPT ![t] = None] ELSE username
            /\ content' = [content EXCEPT ![t] = <<>>]
            /\ joinSteps' = IF AfterBroadcast(bc.msg) = "done"
                              THEN [joinSteps EXCEPT ![t] = <<>>] ELSE joinSteps
  /\ io' = NoIo
  /\ UNCHANGED <<running, mainPc, clients, closed, peerGone, frames, view>>

\* handle_client: broadcast user_joined, exclude=client_socket
JoinBroadcast(s) ==
  /\ Alive
  /\ pc[s] = "bj_lock"
  /\ BroadcastBegin(s, UserJoined(username[s]), s)
  /\ joinSteps' = [joinSteps EXCEPT ![s] = Append(@, "user_joined")]
  /\ UNCHANGED <<running, mainPc, clients, username, content, closed, peerGone, frames, view>>

\* handle_client: the welcome, with list(self.clients.values()) read without
\* the lock
SendWelcome(s) ==
  /\ Alive
  /\ pc[s] = "welcome"
  /\ \E ok \in SendOutcomes(peerGone, s) :
       /\ io' = Sending([NoIo EXCEPT !.sock = s, !.at = "welcome"], s,
                        Welcome(username[s], Values(clients)), ok)
       /\ peerGone' = GoneAt(peerGone, s, ok)
       /\ view' = IF ok THEN [view EXCEPT ![s] = Applied(@, Welcome(username[s], Values(clients)))]
                        ELSE view
  /\ pc' = [pc EXCEPT ![s] = "loop"]
  /\ joinSteps' = [joinSteps EXCEPT ![s] = Append(@, "welcome")]
  /\ UNCHANGED <<running, mainPc, clients, lock, username, content, closed, bc, frames>>

\* ------------------------------------------------------------- the message loop
\* while self.running:
LoopTest(s) ==
  /\ Alive
  /\ pc[s] = "loop"
  /\ pc' = [pc EXCEPT ![s] = IF running THEN "recv" ELSE "dc_lock"]
  /\ io' = NoIo
  /\ UNCHANGED <<running, mainPc, clients, lock, username, content, closed, peerGone, bc, frames, joinSteps, view>>

\* A loop that breaks on a frame it has nothing to do for.
LoopStepStrict(r) ==
  LET v == ReceiveMessage(r)
  IN  IF ~Truthy(v) THEN "dc_lock"
      ELSE CASE ProcessMessage(v) = "raise" -> "dc_lock"
             [] ProcessMessage(v) = "chat" -> "bchat_lock"
             [] ProcessMessage(v) = "pong" -> "loop"
             [] OTHER -> "dc_lock"

\* A loop whose exits return from the handler without disconnect_client.
LoopStepNoCleanup(r) ==
  LET v == ReceiveMessage(r)
  IN  IF ~Truthy(v) THEN "done"
      ELSE CASE ProcessMessage(v) = "raise" -> "done"
             [] ProcessMessage(v) = "chat" -> "bchat_lock"
             [] OTHER -> "loop"

\* Where the loop goes after receive_message met r: "dc_lock" is the break
\* (and the except clauses that break), "loop" the next turn.
LoopStep(r) ==
  LET v == ReceiveMessage(r)
  IN  IF ~Truthy(v) THEN "dc_lock"
      ELSE CASE ProcessMessage(v) = "raise" -> "dc_lock"
             [] ProcessMessage(v) = "chat" -> "bchat_lock"
             [] OTHER -> "loop"

\* receive_message met no frame: a timeout, a closed or failing transport,
\* undecodable JSON
ReceiveNothing(s) ==
  /\ Alive
  /\ pc[s] = "recv"
  /\ \E r \in TransportResults(s) :
       /\ io' = Received(s, "recv", r)
       /\ pc' = [pc EXCEPT ![s] = LoopStep(r)]
       /\ peerGone' = GoneAfter(peerGone, s, r)
  /\ UNCHANGED <<running, mainPc, clients, lock, username, content, closed, bc, frames, joinSteps, view>>

\* receive_message decoded a frame and process_message ran (its pong included)
ReceiveFrame(s) ==
  /\ Alive
  /\ pc[s] = "recv"
  /\ PeerSends(s)
  /\ frames < MaxFrames
  /\ \E v \in LaterFrames : \E more \in Coalesced(Frame(v)) :
       LET got == [Received(s, "recv", Frame(v)) EXCEPT !.lost = Discarded(more)]
           does == IF Truthy(v) THEN ProcessMessage(v) ELSE "none"
       IN  /\ pc' = [pc EXCEPT ![s] = LoopStep(Frame(v))]
           /\ content' = [content EXCEPT ![s] = IF does = "chat" THEN Content(v) ELSE <<>>]
           /\ IF does = "pong"
                THEN \E ok \in SendOutcomes(peerGone, s) :
                       /\ io' = Sending(got, s, Pong, ok)
                       /\ peerGone' = GoneAt(peerGone, s, ok)
                ELSE /\ io' = got
                     /\ peerGone' = peerGone
  /\ frames' = frames + 1
  /\ UNCHANGED <<running, mainPc, clients, lock, username, closed, bc, joinSteps, view>>

\* process_message: broadcast_message(broadcast_data)
ChatBroadcast(s) ==
  /\ Alive
  /\ pc[s] = "bchat_lock"
  /\ BroadcastBegin(s, Chat(username[s], content[s]), 0)
  /\ UNCHANGED <<running, mainPc, clients, username, content, closed, peerGone, frames, joinSteps, view>>

\* ------------------------------------------------------------- disconnect_client
\* handle_client's finally: the entry is deleted under the lock and the socket
\* closed
Disconnect(s) ==
  /\ Alive
  /\ pc[s] = "dc_lock"
  /\ lock = 0
  /\ clients' = Del(clients, s)
  /\ closed' = [closed EXCEPT ![s] = TRUE]
  /\ peerGone' = [peerGone EXCEPT ![s] = FALSE]
  /\ pc' = [pc EXCEPT ![s] = IF username[s] # None THEN "bleft_lock" ELSE "done"]
  /\ io' = NoIo
  /\ joinSteps' = IF username[s] # None THEN joinSteps ELSE [joinSteps EXCEPT ![s] = <<>>]
  /\ view' = [view EXCEPT ![s] = {}]
  /\ UNCHANGED <<running, mainPc, lock, username, content, bc, frames>>

\* disconnect_client: if username and notify: broadcast user_left
LeftBroadcast(s) ==
  /\ Alive
  /\ pc[s] = "bleft_lock"
  /\ BroadcastBegin(s, UserLeft(username[s]), 0)
  /\ UNCHANGED <<running, mainPc, clients, username, content, closed, peerGone, frames, joinSteps, view>>

\* ------------------------------------------------------------- the specification
Next ==
  \/ Start
  \/ StopFlag
  \/ StopClear
  \/ \E s \in Sessions :
       \/ Accept(s)
       \/ HsReceive(s)
       \/ HsCheck(s)
       \/ HsTaken(s)
       \/ Insert(s)
       \/ JoinBroadcast(s)
       \/ BroadcastEnter(s)
       \/ BroadcastSend(s)
       \/ BroadcastEnd(s)
       \/ SendWelcome(s)
       \/ LoopTest(s)
       \/ ReceiveNothing(s)
       \/ ReceiveFrame(s)
       \/ ChatBroadcast(s)
       \/ Disconnect(s)
       \/ LeftBroadcast(s)

Spec == Init /\ [][Next]_vars

\* ------------------------------------------------------------- properties
\* The thread whose broadcast is running (it holds the lock), or 0.
Broadcaster == IF lock # 0 /\ pc[lock] = "bc_loop" THEN lock ELSE 0

\* The sockets a running broadcast has called send_message for, in order.
TriedSocks == [i \in 1..Len(bc.tried) |-> bc.tried[i].sock]

\* How often socket r occurs in the sequence q.
Count(q, r) == Cardinality({i \in DOMAIN q : q[i] = r})

\* The loop of the running broadcast is over.
BroadcastOver == Broadcaster # 0 /\ bc.todo = <<>>

\* C1: no two sessions in the registry carry the same display name, also while
\* several handlers run their join handshakes at once.
C1_UniqueNames ==
  \A i, j \in 1..Len(clients) : i # j => clients[i].name # clients[j].name

\* C2: a chat frame from a joined session whose trimmed content c is not empty
\* becomes the local content c of process_message, is broadcast as the chat
\* message (username of the sender, c) with nobody excluded, and when the
\* loop is over send_message has been called with it exactly once for every
\* other session of the registry.
C2_ChatBroadcastToAll ==
  /\ (io.at = "recv" /\ io.rx.kind = "json" /\ io.rx.val.shape = "dict"
        /\ io.rx.val.type = "chat" /\ io.rx.val.message.k = "str"
        /\ Strip(io.rx.val.message.v) # <<>>)
       => /\ pc[io.sock] = "bchat_lock"
          /\ content[io.sock] = Strip(io.rx.val.message.v)
  /\ \A s \in Sessions : pc[s] = "bchat_lock" => content[s] # <<>> /\ username[s] # None
  /\ \A s \in Sessions :
       InRegistry(s) => \E i \in 1..Len(clients) : clients[i] = [sock |-> s, name |-> username[s]]
  /\ (Broadcaster # 0 /\ bc.msg.type = "chat")
       => /\ bc.msg = Chat(username[Broadcaster], content[Broadcaster])
          /\ bc.msg.message # <<>>
          /\ bc.exclude = 0
          /\ (io.at = "bc_loop" =>
                /\ io.msg = bc.msg
                /\ io.to = bc.tried[Len(bc.tried)].sock
                /\ io.ok = bc.tried[Len(bc.tried)].ok)
          /\ (bc.todo = <<>> =>
                \A r \in Range(Keys(clients)) \ {Broadcaster} : Count(TriedSocks, r) = 1)

\* A chat broadcast is over and has written the message to another session.
C2_Witness ==
  /\ BroadcastOver
  /\ bc.msg.type = "chat"
  /\ \E i \in 1..Len(bc.tried) : bc.tried[i].sock # Broadcaster /\ bc.tried[i].ok

\* C3: for a joined session a receive that times out is no error: the handler
\* goes round its loop again.
C3_TimeoutRepolls ==
  (io.at = "recv" /\ io.rx.kind = "timeout") => pc[io.sock] = "loop"

\* C4: no registry entry outlives its connection: a session whose socket the
\* server has closed, or whose handler has returned, is not in the registry,
\* and a handler returns only with its socket closed; so the name of a session
\* that is gone is free for a new connection.
C4_NoEntryOutlivesConnection ==
  \A s \in Sessions :
    /\ (closed[s] \/ pc[s] \in {"bleft_lock", "done"}) => ~InRegistry(s)
    /\ pc[s] \in {"bleft_lock", "done"} => closed[s]

\* Session 1 has left as "a" (it is broadcasting its user_left) and the new
\* connection 2 has joined under the same name.
C4_Witness ==
  /\ closed[1]
  /\ Broadcaster = 1
  /\ bc.msg = UserLeft(<<"a">>)
  /\ clients = <<[sock |-> 2, name |-> <<"a">>]>>

\* C5: a session that leaves is out of the registry (and its socket closed)
\* before its user_left is broadcast; the notice carries its name, is handed
\* to send_message exactly once for each session of the registry and never for
\* the leaving session; a handler with no name broadcasts no user_left.
C5_UserLeftAfterRemoval ==
  /\ \A s \in Sessions : pc[s] = "bleft_lock" => ~InRegistry(s) /\ username[s] # None
  /\ \A s \in Sessions :
       (username[s] = None /\ Broadcaster = s) => bc.msg.type # "user_left"
  /\ (Broadcaster # 0 /\ bc.msg.type = "user_left")
       => /\ ~InRegistry(Broadcaster)
          /\ closed[Broadcaster]
          /\ bc.msg = UserLeft(username[Broadcaster])
          /\ bc.msg.username # None
          /\ Count(TriedSocks \o bc.todo, Broadcaster) = 0
          /\ (io.at = "bc_loop" => io.msg = bc.msg /\ io.to # Broadcaster)
          /\ (bc.todo = <<>> =>
                \A r \in Range(Keys(clients)) : Count(TriedSocks, r) = 1)

\* A user_left broadcast is over and has reached a remaining session.
C5_Witness ==
  /\ BroadcastOver
  /\ bc.msg.type = "user_left"
  /\ \E i \in 1..Len(bc.tried) : bc.tried[i].ok

\* C6: the users list of a welcome sent on a connection the server has not
\* closed is the registry as it is read after the joiner's insertion: it holds
\* the joiner's own name and the name of every session in the registry then.
C6_WelcomeListsMembers ==
  (io.at = "welcome" /\ ~closed[io.sock]) =>
    /\ io.to = io.sock
    /\ io.msg.type = "welcome"
    /\ InRegistry(io.sock)
    /\ username[io.sock] \in Range(io.msg.users)
    /\ \A i \in 1..Len(clients) : clients[i].name \in Range(io.msg.users)

\* A welcome has been written to a joiner that found another member.
C6_Witness ==
  /\ io.at = "welcome"
  /\ io.ok
  /\ Len(io.msg.users) = 2
  /\ \E i \in 1..2 : io.msg.users[i] # username[io.sock]

\* The characters a display name may have: letters, digits, hyphen, underscore.
Letters ==
  {"a", "b", "c", "d", "e", "f", "g", "h", "i", "j", "k", "l", "m",
   "n", "o", "p", "q", "r", "s", "t", "u", "v", "w", "x", "y", "z",
   "A", "B", "C", "D", "E", "F", "G", "H", "I", "J", "K", "L", "M",
   "N", "O", "P", "Q", "R", "S", "T", "U", "V", "W", "X", "Y", "Z"}

Digits == {"0", "1", "2", "3", "4", "5", "6", "7", "8", "9"}

ValidName(n) ==
  /\ n # <<>>
  /\ Len(n) <= MaxNameLen
  /\ \A i \in 1..Len(n) : n[i] \in Letters \cup Digits \cup {"-", "_"}

\* C7: a join whose (trimmed) username is empty, longer than 20 characters or
\* has a character other than letters, digits, hyphen and underscore is
\* answered with the 'Invalid username' error and goes to the disconnect, and
\* no such name is ever in the registry.
C7_InvalidNamesRejected ==
  /\ \A i \in 1..Len(clients) : ValidName(clients[i].name)
  /\ (io.at = "hs_recv" /\ io.rx.kind = "json" /\ io.rx.val.shape = "dict"
        /\ io.rx.val.type = "join" /\ io.rx.val.username.k = "str"
        /\ ~ValidName(Strip(io.rx.val.username.v)))
       => /\ io.to = io.sock
          /\ io.msg = ErrorMsg("Invalid username")
          /\ pc[io.sock] = "dc_lock"
          /\ ~InRegistry(io.sock)

\* C8: a handshake that fails (the handler leaves get_username for the
\* disconnect) has called send_message with an error for its session, has no
\* name, and its session is not in the registry.
C8_HandshakeFailureSendsError ==
  (io.at \in {"hs_recv", "hs_taken"} /\ pc[io.sock] = "dc_lock") =>
    /\ io.to = io.sock
    /\ io.msg.type = "error"
    /\ username[io.sock] = None
    /\ ~InRegistry(io.sock)

\* C9: a broadcast calls send_message, in the order of the keys, for every
\* session of the registry other than the excluded one, whatever the sends
\* before did; no failed send reaches broadcast_message as an exception, and
\* no caller is stopped by the broadcast's cleanup.
C9_BroadcastBestEffort ==
  /\ \A s \in Sessions : pc[s] # "blocked"
  /\ Broadcaster # 0 =>
       /\ TriedSocks \o bc.todo = BroadcastTargets(clients, bc.exclude)
       /\ \A i \in 1..Len(bc.tried) : ~bc.tried[i].raised
       /\ (io.at = "bc_loop" =>
             /\ io.msg = bc.msg
             /\ io.to = bc.tried[Len(bc.tried)].sock
             /\ io.ok = bc.tried[Len(bc.tried)].ok)

\* A broadcast is over whose first send failed and whose later send was written.
C9_Witness ==
  /\ BroadcastOver
  /\ \E i, j \in 1..Len(bc.tried) : i < j /\ ~bc.tried[i].ok /\ bc.tried[j].ok

\* C10: when a broadcast returns, every recipient whose send failed during it
\* has been removed from the registry by the broadcast.
C10_FailedRecipientRemoved ==
  [][\A t \in Sessions :
       (pc[t] = "bc_loop" /\ pc'[t] # "bc_loop") =>
         \A i \in 1..Len(bc.tried) :
           ~bc.tried[i].ok => bc.tried[i].sock \notin Range(Keys(clients'))]_vars

\* C11: broadcasts run one after the other, in the order they took the lock: a
\* broadcast begins only when none is running, ends only when it has called
\* send_message for all its keys, names no recipient twice, and every broadcast
\* message written to a socket is the running broadcast's, written by its
\* thread to the next key.  So what a session gets of two broadcasts it gets
\* in the order they were issued.
C11_PerRecipientFifo ==
  [][/\ (Broadcaster' # 0 /\ Broadcaster' # Broadcaster)
          => (Broadcaster = 0 /\ bc = NoBc /\ bc'.tried = <<>>)
     /\ (Broadcaster # 0 /\ Broadcaster' # Broadcaster)
          => (bc.todo = <<>> /\ bc' = NoBc)
     /\ (Broadcaster # 0 /\ Broadcaster' = Broadcaster)
          => /\ bc'.msg = bc.msg
             /\ TriedSocks' \o bc'.todo = TriedSocks \o bc.todo
             /\ \A r \in Sessions : Count(TriedSocks \o bc.todo, r) <= 1
     /\ (io'.at = "bc_loop")
          => /\ Broadcaster # 0
             /\ Broadcaster' = Broadcaster
             /\ io'.sock = Broadcaster
             /\ io'.msg = bc.msg
             /\ io'.to = Head(bc.todo)
             /\ bc'.todo = Tail(bc.todo)]_vars

\* Session 2, which joined after session 1, has written its chat to session 1:
\* session 1 was written the user_joined of session 2 before (a send to it
\* that had failed would have left its peer gone).
C11_Witness ==
  /\ Broadcaster = 2
  /\ bc.msg.type = "chat"
  /\ Keys(clients) = <<1, 2>>
  /\ \E i \in 1..Len(bc.tried) : bc.tried[i].sock = 1 /\ bc.tried[i].ok

\* C12: a receive that decodes a frame drops no complete frame that it has
\* read behind it.
C12_NoFrameLost ==
  io.rx.kind = "json" => io.lost = 0

\* C13: a chat frame whose content is empty or only whitespace sends nothing,
\* starts no broadcast, and leaves its sender in the loop, in the registry and
\* with its socket open.
C13_BlankChatDropped ==
  (io.at = "recv" /\ io.rx.kind = "json" /\ io.rx.val.shape = "dict"
     /\ io.rx.val.type = "chat" /\ io.rx.val.message.k # "nonstr"
     /\ Strip(io.rx.val.message.v) = <<>>)
    => /\ io.to = 0
       /\ io.msg = NoMsg
       /\ pc[io.sock] = "loop"
       /\ content[io.sock] = <<>>
       /\ InRegistry(io.sock)
       /\ ~closed[io.sock]

\* A chat of one blank has been received and its sender is back in the loop.
C13_Witness ==
  /\ io.at = "recv"
  /\ io.rx.val.type = "chat"
  /\ io.rx.val.message = Str(<<" ">>)
  /\ pc[io.sock] = "loop"

\* C14: a ping is answered with one pong to its sender and nothing else; a
\* frame of another type than chat and ping sends nothing; both leave the
\* sender in the loop, in the registry and with its socket open; a pong is
\* never broadcast.
C14_PingPong ==
  /\ (io.at = "recv" /\ io.rx.kind = "json" /\ io.rx.val.shape = "dict"
        /\ io.rx.val.type = "ping")
       => (io.to = io.sock /\ io.msg = Pong /\ pc[io.sock] = "loop"
             /\ InRegistry(io.sock) /\ ~closed[io.sock])
  /\ (io.at = "recv" /\ io.rx.kind = "json" /\ io.rx.val.shape = "dict"
        /\ io.rx.val.type \notin {"chat", "ping"})
       => (io.to = 0 /\ io.msg = NoMsg /\ pc[io.sock] = "loop"
             /\ InRegistry(io.sock) /\ ~closed[io.sock])
  /\ io.msg.type = "pong" => (io.at = "recv" /\ io.to = io.sock)
  /\ bc.msg.type # "pong"

\* A pong has been written to the session that sent the ping.
C14_Witness ==
  /\ io.msg = Pong
  /\ io.ok
  /\ io.rx.val.type = "ping"

\* Handler s has sent its welcome (it has been in the message loop) and has
\* not completed its cleanup.
Unfinished(s) == "welcome" \in Range(joinSteps[s])

\* C15: when the process has gone through its shutdown, every handler that
\* was in the message loop has left it and completed the cleanup, and the
\* registry is empty.
C15_ShutdownTerminates ==
  mainPc = "exit" => (clients = <<>> /\ \A s \in Sessions : ~Unfinished(s))

\* The registry entry of socket o, if it has one.
Entry(c, o) == SelectSeq(c, LAMBDA e : e.sock = o)

\* C16: a step of the handler of one session, whatever ends or fails in it,
\* leaves every other session's registry entry, name, socket and handler where
\* they are; the cleanup step itself sends nothing, and what the handler
\* broadcasts after it is the user_left.
C16_FailuresContained ==
  [][\A s \in Sessions :
       /\ (pc'[s] # pc[s] \/ io'.sock = s)
            => \A o \in Sessions \ {s} :
                 /\ Entry(clients', o) = Entry(clients, o)
                 /\ username'[o] = username[o]
                 /\ closed'[o] = closed[o]
                 /\ pc'[o] = pc[o]
                 /\ joinSteps'[o] = joinSteps[o]
       /\ (pc[s] = "dc_lock" /\ pc'[s] # pc[s])
            => (io'.to = 0 /\ pc'[s] \in {"bleft_lock", "done"})
       /\ (pc[s] = "bleft_lock" /\ pc'[s] # pc[s])
            => (bc'.msg.type = "user_left" /\ Broadcaster' = s)]_vars

\* The handler of one session has returned, its socket closed, while another
\* session is registered and in its loop.
C16_Witness ==
  \E s, o \in Sessions :
    /\ s # o
    /\ pc[s] = "done"
    /\ closed[s]
    /\ InRegistry(o)
    /\ ~closed[o]
    /\ pc[o] \in {"loop", "recv"}

\* C17: no thread writes to a socket while the broadcasting thread is inside
\* its socket.send to the same socket.
C17_SendsSerialized ==
  ~(bc.cur # 0 /\ io.to = bc.cur /\ io.sock # Broadcaster)

\* C18: a thread that is inside a send, or has just sent or received, does not
\* hold clients_lock.
C18_NoIoUnderLock ==
  /\ bc.cur # 0 => lock = 0
  /\ (io.to # 0 \/ io.rx.kind # "none") => lock # io.sock

\* The join steps in the order of handle_client, and in the order the claim gives.
JoinOrder == <<"insert", "user_joined", "welcome">>
ClaimedJoinOrder == <<"insert", "welcome", "user_joined">>

IsPrefix(p, q) == Len(p) <= Len(q) /\ SubSeq(q, 1, Len(p)) = p

\* C19 as stated: every handler does its join steps in the order insert,
\* welcome, user_joined.
C19_WelcomeBeforeUserJoined ==
  \A s \in Sessions : IsPrefix(joinSteps[s], ClaimedJoinOrder)

\* C19 as amended: every handler does its join steps in the order insert,
\* user_joined, welcome; a handler in its message loop has done all three; the
\* user_joined broadcast excludes the joiner and never names its socket; and
\* the welcome goes to the joiner.
C19_JoinOrder ==
  /\ \A s \in Sessions : IsPrefix(joinSteps[s], JoinOrder)
  /\ \A s \in Sessions :
       pc[s] \in {"loop", "recv", "bchat_lock"} => joinSteps[s] = JoinOrder
  /\ (Broadcaster # 0 /\ bc.msg.type = "user_joined")
       => /\ bc.msg = UserJoined(username[Broadcaster])
          /\ bc.exclude = Broadcaster
          /\ Count(TriedSocks \o bc.todo, Broadcaster) = 0
          /\ joinSteps[Broadcaster] = <<"insert", "user_joined">>
  /\ io.at = "welcome"
       => (io.to = io.sock /\ io.msg.type = "welcome" /\ joinSteps[io.sock] = JoinOrder)

\* A joiner has been written its welcome after its user_joined was written to
\* another session.
C19_Witness ==
  /\ io.at = "welcome"
  /\ io.ok
  /\ joinSteps[io.sock] = JoinOrder
  /\ Len(clients) = 2

\* C20: a broadcast message is written only to sessions whose handler has
\* sent the welcome.
C20_WelcomeFirst ==
  (io.at = "bc_loop" /\ io.ok) => "welcome" \in Range(joinSteps[io.to])

\* No join and no departure is in progress: the server is accepting, nobody
\* holds the lock, and every handler is unstarted, in its message loop or done.
Quiet ==
  /\ mainPc = "accept"
  /\ lock = 0
  /\ \A s \in Sessions : pc[s] \in {"idle", "loop", "recv", "done"}

\* s is a member whose connection is up.
Connected(s) ==
  /\ pc[s] \in {"loop", "recv"}
  /\ InRegistry(s)
  /\ ~closed[s]
  /\ ~peerGone[s]

\* C21: whenever no join or departure is in progress, the names a connected
\* member has been told of (its welcome's users, then every user_joined and
\* user_left written to it after the welcome, in order) are the registry's names.
C21_ConsistentView ==
  Quiet => \A s \in Sessions : Connected(s) => view[s] = Range(Values(clients))

\* ------------------------------------------------------------- fairness
\* The steps of the handler thread of s.
Handler(s) ==
  \/ HsReceive(s)
  \/ HsCheck(s)
  \/ HsTaken(s)
  \/ Insert(s)
  \/ JoinBroadcast(s)
  \/ BroadcastEnter(s)
  \/ BroadcastSend(s)
  \/ BroadcastEnd(s)
  \/ SendWelcome(s)
  \/ LoopTest(s)
  \/ ReceiveNothing(s)
  \/ ReceiveFrame(s)
  \/ ChatBroadcast(s)
  \/ Disconnect(s)
  \/ LeftBroadcast(s)

\* A thread that can take its next step takes it in the end: the sockets have
\* timeouts (30 s, then 1 s), so recv and send return, and a thread that waits
\* for a lock that stays free gets it.  Nothing is assumed of the peers or of
\* the operator: connections, frames and the interrupt may never come.
FairSpec ==
  /\ Spec
  /\ \A s \in Sessions : WF_vars(Handler(s))
  /\ WF_vars(StopClear)

\* Where a handler thread asks for clients_lock ("blocked": disconnect_client
\* called from broadcast_message's cleanup pass), and where stop() does.
Requests == {"hs_lock", "ins_lock", "bj_lock", "bchat_lock", "dc_lock", "bleft_lock", "blocked"}
MainRequests == {"clear1", "clear2"}

\* C22: no thread asks for clients_lock while it holds it (broadcast_message
\* never reaches its call of disconnect_client), and a thread that asks for
\* the lock gets it, unless the process ends first: no thread stays at a
\* request for ever (a thread leaves a request only by getting the lock).
C22_NoLockDeadlock ==
  /\ [](\A s \in Sessions : pc[s] \in Requests => lock # s)
  /\ \A s \in Sessions : []<>(pc[s] \notin Requests \/ ~Alive)
  /\ []<>(mainPc \notin MainRequests)

\* C22 witness: a handler waits for the lock while another thread holds it in a
\* broadcast in which a send has failed.
C22_Witness ==
  \E s \in Sessions :
    /\ pc[s] \in Requests
    /\ Broadcaster # 0
    /\ Broadcaster # s
    /\ \E i \in DOMAIN bc.tried : ~bc.tried[i].ok

====
